---- MODULE Spec2Model ----
\* Model of StockDataIngestionPipeline (src/src/data_ingestor/data_ingestion.py):
\* run() iterating a ticker sequence, process_ticker() with its three stages
\* load_and_process_data / _validate_data / upload_to_gcs, the exception
\* classes of exception_handler/custom_exceptions.py and the settings of
\* config/settings.py.
EXTENDS Integers, Sequences, FiniteSets, TLC

VARIABLES
    config,       \* self.config, loaded by _load_configuration
    pc,           \* position of the single thread of control
    ticker_list,  \* the argument of run: [given |-> FALSE] stands for None
    tickers,      \* run's local `tickers`
    i,            \* position of the for loop in `tickers` (1-based)
    successful,   \* run's local list
    failed,       \* run's local list
    sleeps,       \* number of time.sleep(rate_limit_delay) calls made by run
    now,          \* wall clock, in ticks of 1/TicksPerSecond second
    fetch_calls,  \* the yf.download calls made so far
    uploads,      \* the completed upload_from_string calls
    bucket,       \* objects of the export bucket: one per path, last writer
    call,         \* the process_ticker call in progress or just ended
    exc,          \* exception in flight ("none" when there is none)
    exit_status   \* exit status of the process ("none" while it runs)

vars == <<config, pc, ticker_list, tickers, i, successful, failed, sleeps,
          now, fetch_calls, uploads, bucket, call, exc, exit_status>>

-----------------------------------------------------------------------------
\* Bounds of the model

MaxTickers == 2       \* longest explicit ticker_list
MaxGroup == 2         \* longest configured indian_stocks group
MaxElapsed == 1       \* longest duration of one provider call, in ticks
TicksPerSecond == 2   \* clock resolution: ticks per second

Symbols == {"TSLA", "TCS.NS"}
IndianSymbols == {"TCS.NS", "INFY.NS"}
UsSymbols == {"TSLA"}

SeqsUpTo(S, n) == UNION {[1..k -> S] : k \in 0..n}

ToSet(s) == {s[k] : k \in 1..Len(s)}

-----------------------------------------------------------------------------
\* Exceptions: names, classes and the try statement

\* The names that `from exception_handler.custom_exceptions import *` binds.
custom_exceptions ==
    {"AutomatedDataPipeline", "DataIngestionException",
     "DataDownloadException", "DataValidationException",
     "GCSUploadException", "GCSConnectionException",
     "ConfigurationException", "DataProcessingException"}

\* Exception classes bound otherwise: builtins, gcp_exceptions.*, and the
\* provider's own error.
LibraryExceptions ==
    {"Exception", "NameError", "FileNotFoundError", "Forbidden", "NotFound",
     "ProviderError", "TransportError", "ValidationError"}

BoundNames == custom_exceptions \cup LibraryExceptions

\* Evaluating a name: its class when bound, else NameError is raised.
Lookup(name) == IF name \in BoundNames THEN name ELSE "NameError"

\* The direct base class.
BaseOf(cls) ==
    CASE cls = "AutomatedDataPipeline" -> "Exception"
      [] cls = "DataIngestionException" -> "AutomatedDataPipeline"
      [] cls \in custom_exceptions
             \ {"AutomatedDataPipeline", "DataIngestionException"}
           -> "DataIngestionException"
      [] OTHER -> "Exception"

RECURSIVE IsInstance(_, _)
IsInstance(e, cls) ==
    IF e = cls THEN TRUE
    ELSE IF e = "Exception" THEN FALSE
    ELSE IsInstance(BaseOf(e), cls)

\* The search for a handler among the except clauses of one try statement.
\* clauses[k] is the set of names of the k-th except clause. An unbound name
\* in a clause reached by the search raises NameError out of the statement.
RECURSIVE ExceptSearch(_, _, _)
ExceptSearch(clauses, e, k) ==
    IF k > Len(clauses) THEN [handler |-> 0, exc |-> e]
    ELSE IF \E n \in clauses[k] : n \notin BoundNames
         THEN [handler |-> 0, exc |-> "NameError"]
    ELSE IF \E n \in clauses[k] : IsInstance(e, n)
         THEN [handler |-> k, exc |-> e]
    ELSE ExceptSearch(clauses, e, k + 1)

-----------------------------------------------------------------------------
\* Settings

Periods == {"3y", "1mo"}
Intervals == {"1d", "1h"}
\* pipeline.rate_limit_delay, in seconds: no delay, or the default
RateLimitDelays == {0, 2}
\* pipeline.retry_attempts (ge=1, le=10): the default, the next, the largest
RetryAttempts == {1, 2, 10}

\* The configurations of Spec: the data source, the groups and the storage
\* and rate-limit options vary, the other pipeline options have their
\* defaults.
Configs ==
    [period : Periods,
     interval : Intervals,
     us_stocks : SeqsUpTo(UsSymbols, 1) \ {<<>>},
     indian_stocks : SeqsUpTo(IndianSymbols, MaxGroup),
     raw_data_path : {"raw"},
     include_timestamp : BOOLEAN,
     rate_limit_delay : RateLimitDelays,
     retry_attempts : {1},
     retry_delay : {5},
     enable_validation : {TRUE}]

\* The configurations of SpecPipeline: the pipeline options retry_attempts
\* and enable_validation vary, the other options have their defaults.
PipelineConfigs ==
    [period : {"3y"},
     interval : {"1d"},
     us_stocks : {<<"TSLA">>},
     indian_stocks : SeqsUpTo(IndianSymbols, 1),
     raw_data_path : {"raw"},
     include_timestamp : {TRUE},
     rate_limit_delay : {2},
     retry_attempts : RetryAttempts,
     retry_delay : {5},
     enable_validation : BOOLEAN]

\* get_all_tickers with the two groups exchanged
get_all_tickers_swapped(cfg, indian) ==
    IF indian THEN cfg.us_stocks ELSE cfg.indian_stocks

get_all_tickers(cfg, indian) ==
    IF indian THEN cfg.indian_stocks ELSE cfg.us_stocks

-----------------------------------------------------------------------------
\* Data frames. A column label is a tuple: <<name>> in a flat index,
\* <<name, ticker>> in a pandas MultiIndex.

ProviderColumns == {"Open", "High", "Low", "Close", "Volume"}
ColumnChoices == {ProviderColumns, ProviderColumns \ {"Volume"}}
NegativeChoices == {{}, {"Open", "Low"}}

Label(name, multi, ticker_symbol) ==
    IF multi THEN <<name, ticker_symbol>> ELSE <<name>>

NoDf == [empty |-> TRUE, multi |-> FALSE, columns |-> {}, negative |-> {}]

\* What yf.download may answer for a ticker: an error, an empty frame, or a
\* frame with some columns, some of them holding negative values.
Responses(ticker_symbol) ==
    {[kind |-> "raise", df |-> NoDf], [kind |-> "df", df |-> NoDf]}
    \cup
    UNION {
      {[kind |-> "df",
        df |-> [empty |-> FALSE, multi |-> m,
                columns |-> {Label(c, m, ticker_symbol) : c \in cs},
                negative |-> {Label(c, m, ticker_symbol) : c \in ng}]] :
          m \in BOOLEAN, ng \in {n \in NegativeChoices : n \subseteq cs}} :
      cs \in ColumnChoices}

\* df.columns.get_level_values(0)
get_level_values_0(df) ==
    [df EXCEPT !.multi = FALSE,
               !.columns = {<<c[1]>> : c \in df.columns},
               !.negative = {<<c[1]>> : c \in df.negative}]

\* df.reset_index(inplace=True): the date index becomes a column
reset_index(df) == [df EXCEPT !.columns = df.columns \cup {<<"Date">>}]

-----------------------------------------------------------------------------
\* The three stages of process_ticker

\* The arguments of the yf.download call.
yf_download_defaults(ticker_symbol, cfg) ==
    [ticker |-> ticker_symbol, period |-> "3y", interval |-> "1d"]

yf_download(ticker_symbol, cfg) ==
    [ticker |-> ticker_symbol, period |-> cfg.period,
     interval |-> cfg.interval]

load_and_process_data(ticker_symbol, resp) ==
    LET raised == IF resp.kind = "raise" THEN "ProviderError"
                  ELSE IF resp.df.empty THEN Lookup("DataDownloadError")
                  ELSE "none"
        flat == IF resp.df.multi THEN get_level_values_0(resp.df)
                ELSE resp.df
        h == ExceptSearch(<<{"DataDownloadError"}, {"Exception"}>>, raised, 1)
    IN  IF raised = "none"
        THEN [exc |-> "none", df |-> reset_index(flat)]
        ELSE [exc |-> CASE h.handler = 1 -> raised
                        [] h.handler = 2 -> Lookup("DataDownloadError")
                        [] OTHER -> h.exc,
              df |-> NoDf]

required_columns ==
    {<<"Open">>, <<"High">>, <<"Low">>, <<"Close">>, <<"Volume">>}
price_columns == << <<"Open">>, <<"High">>, <<"Low">>, <<"Close">> >>

IsNegative(df, col) == col \in df.negative

\* _validate_data raising where the code only warns
validate_data_negative_fails(df, ticker_symbol) ==
    IF required_columns \ df.columns = {}
       /\ \A k \in 1..Len(price_columns) : ~IsNegative(df, price_columns[k])
    THEN [exc |-> "none", warnings |-> <<>>]
    ELSE [exc |-> "NameError", warnings |-> <<>>]

\* _validate_data without the required-column check
validate_data_always_passes(df, ticker_symbol) ==
    [exc |-> "none",
     warnings |-> SelectSeq(price_columns, LAMBDA col : IsNegative(df, col))]

\* self._validate_data(df, ticker_symbol)
validate_data(df, ticker_symbol) ==
    LET missing_columns == required_columns \ df.columns
        raised == IF missing_columns # {}
                  THEN Lookup("DataValidationError") ELSE "none"
        h == ExceptSearch(<<{"DataValidationError"}, {"Exception"}>>,
                          raised, 1)
    IN  IF raised = "none"
        THEN [exc |-> "none",
              warnings |-> SelectSeq(price_columns,
                                     LAMBDA col : IsNegative(df, col))]
        ELSE [exc |-> CASE h.handler = 1 -> raised
                        [] h.handler = 2 -> Lookup("DataValidationError")
                        [] OTHER -> h.exc,
              warnings |-> <<>>]

\* datetime.datetime.now().strftime('%Y%m%d_%H%M%S'): second resolution
strftime(t_now) == ToString(t_now \div TicksPerSecond)

\* the file name without the timestamp branch
file_name_bare(ticker_symbol, cfg, t_now) == <<ticker_symbol, ".csv">>

file_name(ticker_symbol, cfg, t_now) ==
    IF cfg.include_timestamp
    THEN <<ticker_symbol, "_", strftime(t_now), ".csv">>
    ELSE <<ticker_symbol, ".csv">>

blob_path(ticker_symbol, cfg, t_now) ==
    <<cfg.raw_data_path, "/", ticker_symbol, "/">>
        \o file_name(ticker_symbol, cfg, t_now)

UploadOutcomes == {"ok", "Forbidden", "TransportError"}

upload_to_gcs(ticker_symbol, cfg, t_now, outcome) ==
    LET raised == IF outcome = "ok" THEN "none" ELSE outcome
        h == ExceptSearch(<<{"Forbidden"}, {"Exception"}>>, raised, 1)
    IN  IF raised = "none"
        THEN [exc |-> "none", path |-> blob_path(ticker_symbol, cfg, t_now)]
        ELSE [exc |-> CASE h.handler = 1 -> Lookup("GCSUploadError")
                        [] h.handler = 2 -> Lookup("GCSUploadError")
                        [] OTHER -> h.exc,
              path |-> <<>>]

\* except clauses that report success
process_ticker_except_true(e) ==
    [result |-> "True", exc |-> "none", handler |-> 2]

\* The except clauses of process_ticker, entered with exception e in flight:
\* the value returned, or the exception that leaves process_ticker.
process_ticker_except(e) ==
    LET h == ExceptSearch(<<{"DataDownloadError", "DataValidationError",
                             "GCSUploadError"},
                            {"Exception"}>>, e, 1)
    IN  IF h.handler \in {1, 2}
        THEN [result |-> "False", exc |-> "none", handler |-> h.handler]
        ELSE [result |-> "raise", exc |-> h.exc, handler |-> 0]

\* Whether the first handler of process_ticker goes on to the retry logic:
\* `return False` (line 202) precedes the test of `retry`, so it never does.
reaches_retry(retry, cfg) == FALSE

\* validation gated by pipeline.enable_validation
runs_validation_if_enabled(cfg) == cfg.enable_validation

\* Whether process_ticker calls _validate_data: the call is unconditional,
\* pipeline.enable_validation is read nowhere.
runs_validation(cfg) == TRUE

-----------------------------------------------------------------------------
\* Construction and main

ConfigOutcomes == {"ok", "FileNotFoundError", "ValidationError"}

\* _load_configuration, load_config/load_settings ending with outcome
load_configuration(outcome) ==
    LET raised == IF outcome = "ok" THEN "none" ELSE outcome
        h == ExceptSearch(<<{"FileNotFoundError"}, {"Exception"}>>, raised, 1)
    IN  IF raised = "none" THEN "none"
        ELSE CASE h.handler = 1 -> Lookup("ConfigurationError")
               [] h.handler = 2 -> Lookup("ConfigurationError")
               [] OTHER -> h.exc

GcsOutcomes == {"ok", "NotFound", "Forbidden", "TransportError"}

\* _initialize_gcs_client, storage.Client()/get_bucket ending with outcome
initialize_gcs_client(outcome) ==
    LET raised == IF outcome = "ok" THEN "none" ELSE outcome
        h == ExceptSearch(<<{"NotFound"}, {"Forbidden"}, {"Exception"}>>,
                          raised, 1)
    IN  IF raised = "none" THEN "none"
        ELSE CASE h.handler \in {1, 2, 3} -> Lookup("GCSConnectionError")
               [] OTHER -> h.exc

\* The exit status of the process when exception e reaches main's except
\* clauses: sys.exit(1) in either handler, and status 1 as well when the
\* exception leaves main uncaught.
main_except(e) ==
    LET h == ExceptSearch(<<{"ConfigurationError", "GCSConnectionError"},
                            {"Exception"}>>, e, 1)
    IN  IF h.handler \in {1, 2} THEN "1" ELSE "1"

-----------------------------------------------------------------------------
\* run

NoTickerList == [given |-> FALSE, list |-> <<>>]

\* The arguments run is called with: None under every configuration, and
\* the explicit sequences under the configurations whose indian_stocks group
\* is empty or a single symbol.
TickerLists(cfg) ==
    {NoTickerList}
    \cup {[given |-> TRUE, list |-> s] :
            s \in IF Len(cfg.indian_stocks) < 2
                  THEN SeqsUpTo(Symbols, MaxTickers) ELSE {}}

\* `if ticker_list is None` of run
select_tickers(cfg, tl) ==
    IF ~tl.given THEN get_all_tickers(cfg, TRUE) ELSE tl.list

\* `if ticker != tickers[-1]` of run, for the ticker at position k
wait_after(tks, k) == tks[k] # tks[Len(tks)]

NoCall ==
    [ticker |-> "", resp |-> [kind |-> "none", df |-> NoDf], df |-> NoDf,
     stages |-> <<>>, warnings |-> <<>>, upload_outcome |-> "none",
     path |-> <<>>, result |-> "none",
     retry |-> 0, fetches |-> 0, retry_sleeps |-> 0]

InitOther ==
    /\ pc = "start"
    /\ ticker_list = NoTickerList
    /\ tickers = <<>>
    /\ i = 1
    /\ successful = <<>>
    /\ failed = <<>>
    /\ sleeps = 0
    /\ now = 0
    /\ fetch_calls = <<>>
    /\ uploads = <<>>
    /\ bucket = {}
    /\ call = NoCall
    /\ exc = "none"
    /\ exit_status = "none"

Init == config \in Configs /\ InitOther

InitPipeline == config \in PipelineConfigs /\ InitOther

\* self._load_configuration() of __init__
LoadConfiguration ==
    /\ pc = "start"
    /\ \E outcome \in ConfigOutcomes :
         LET e == load_configuration(outcome)
         IN  /\ exc' = e
             /\ pc' = IF e = "none" THEN "config_loaded" ELSE "init_failed"
    /\ UNCHANGED <<config, exit_status, ticker_list, tickers, i, successful,
                   failed, sleeps, now, fetch_calls, uploads, bucket, call>>

\* self._initialize_gcs_client() and the rest of __init__
InitializeGcsClient ==
    /\ pc = "config_loaded"
    /\ \E outcome \in GcsOutcomes :
         LET e == initialize_gcs_client(outcome)
         IN  /\ exc' = e
             /\ pc' = IF e = "none" THEN "constructed" ELSE "init_failed"
    /\ UNCHANGED <<config, exit_status, ticker_list, tickers, i, successful,
                   failed, sleeps, now, fetch_calls, uploads, bucket, call>>

\* run(ticker_list) up to the for loop
Run(tl) ==
    /\ pc = "constructed"
    /\ ticker_list' = tl
    /\ tickers' = select_tickers(config, tl)
    /\ successful' = <<>>
    /\ failed' = <<>>
    /\ i' = 1
    /\ pc' = "loop"
    /\ UNCHANGED <<config, exit_status, sleeps, now, fetch_calls, uploads,
                   bucket, call, exc>>

\* process_ticker(ticker) enters its try block and calls
\* load_and_process_data; the provider answers resp after d ticks
LoadAndProcessData ==
    /\ pc \in {"loop", "retry"}
    /\ i <= Len(tickers)
    /\ \E resp \in Responses(tickers[i]), d \in 0..MaxElapsed :
         LET r == load_and_process_data(tickers[i], resp)
         IN  /\ now' = now + d
             /\ fetch_calls' = Append(fetch_calls,
                                      yf_download(tickers[i], config))
             /\ call' = [NoCall EXCEPT !.ticker = tickers[i],
                                       !.resp = resp,
                                       !.df = r.df,
                                       !.stages = <<"fetch">>,
                                       !.result = "running",
                                       !.retry = IF pc = "retry"
                                                 THEN call.retry + 1 ELSE 0,
                                       !.fetches = IF pc = "retry"
                                                   THEN call.fetches + 1
                                                   ELSE 1,
                                       !.retry_sleeps =
                                           IF pc = "retry"
                                           THEN call.retry_sleeps ELSE 0]
             /\ exc' = r.exc
             /\ pc' = IF r.exc = "none" THEN "validate" ELSE "except"
    /\ UNCHANGED <<config, exit_status, ticker_list, tickers, i, successful,
                   failed,
                   sleeps, uploads, bucket>>

\* self._validate_data(df, ticker_symbol)
ValidateData ==
    /\ pc = "validate"
    /\ LET r == validate_data(call.df, call.ticker)
       IN  IF runs_validation(config)
           THEN /\ call' = [call EXCEPT !.stages = Append(@, "validate"),
                                        !.warnings = r.warnings]
                /\ exc' = r.exc
                /\ pc' = IF r.exc = "none" THEN "upload" ELSE "except"
           ELSE /\ pc' = "upload"
                /\ UNCHANGED <<call, exc>>
    /\ UNCHANGED <<config, exit_status, ticker_list, tickers, i, successful,
                   failed,
                   sleeps, now, fetch_calls, uploads, bucket>>

\* self.upload_to_gcs(df, ticker_symbol), then `return True`
UploadToGcs ==
    /\ pc = "upload"
    /\ \E outcome \in UploadOutcomes :
         LET r == upload_to_gcs(call.ticker, config, now, outcome)
         IN  IF r.exc = "none"
             THEN /\ uploads' = Append(uploads,
                                       [ticker |-> call.ticker,
                                        path |-> r.path, at |-> now])
                  /\ bucket' = {o \in bucket : o.path # r.path}
                               \cup {[path |-> r.path,
                                      writer |-> Len(uploads) + 1]}
                  /\ call' = [call EXCEPT !.stages = Append(@, "upload"),
                                          !.upload_outcome = outcome,
                                          !.path = r.path,
                                          !.result = "True"]
                  /\ exc' = "none"
                  /\ pc' = "returned"
             ELSE /\ call' = [call EXCEPT !.stages = Append(@, "upload"),
                                          !.upload_outcome = outcome]
                  /\ exc' = r.exc
                  /\ pc' = "except"
                  /\ UNCHANGED <<uploads, bucket>>
    /\ UNCHANGED <<config, exit_status, ticker_list, tickers, i, successful,
                   failed,
                   sleeps, now, fetch_calls>>

\* the except clauses of process_ticker; run has no try statement, so an
\* exception that leaves process_ticker leaves run as well
ProcessTickerExcept ==
    /\ pc = "except"
    /\ LET r == process_ticker_except(exc)
       IN  IF /\ r.handler = 1
              /\ reaches_retry(call.retry, config)
              /\ call.retry < config.retry_attempts - 1
           THEN \* time.sleep(retry_delay); process_ticker(ticker, retry + 1)
                /\ call' = [call EXCEPT !.retry_sleeps = @ + 1]
                /\ now' = now + config.retry_delay * TicksPerSecond
                /\ exc' = "none"
                /\ pc' = "retry"
           ELSE /\ call' = [call EXCEPT !.result = r.result]
                /\ exc' = r.exc
                /\ pc' = IF r.result = "raise" THEN "raised" ELSE "returned"
                /\ UNCHANGED now
    /\ UNCHANGED <<config, exit_status, ticker_list, tickers, i, successful,
                   failed, sleeps, fetch_calls, uploads, bucket>>

\* `if self.process_ticker(ticker): successful.append ... else failed.append`
RunAppend ==
    /\ pc = "returned"
    /\ IF call.result = "True"
       THEN /\ successful' = Append(successful, tickers[i])
            /\ UNCHANGED failed
       ELSE /\ failed' = Append(failed, tickers[i])
            /\ UNCHANGED successful
    /\ pc' = "rate_limit"
    /\ UNCHANGED <<config, exit_status, ticker_list, tickers, i, sleeps, now,
                   fetch_calls,
                   uploads, bucket, call, exc>>

\* the rate-limit sleep at the end of the loop body
RateLimit ==
    /\ pc = "rate_limit"
    /\ IF wait_after(tickers, i)
       THEN /\ sleeps' = sleeps + 1
            /\ now' = now + config.rate_limit_delay * TicksPerSecond
       ELSE UNCHANGED <<sleeps, now>>
    /\ i' = i + 1
    /\ pc' = "loop"
    /\ UNCHANGED <<config, exit_status, ticker_list, tickers, successful,
                   failed,
                   fetch_calls, uploads, bucket, call, exc>>

\* the loop is exhausted: the summary is logged and run returns
RunSummary ==
    /\ pc = "loop"
    /\ i > Len(tickers)
    /\ pc' = "done"
    /\ UNCHANGED <<config, exit_status, ticker_list, tickers, i, successful,
                   failed,
                   sleeps, now, fetch_calls, uploads, bucket, call, exc>>

\* main: the process ends when run has returned, or when an exception from
\* the construction or from run reaches main's except clauses
MainExit ==
    /\ pc \in {"done", "raised", "init_failed"}
    /\ exit_status = "none"
    /\ exit_status' = IF pc = "done" THEN "0" ELSE main_except(exc)
    /\ UNCHANGED <<config, pc, ticker_list, tickers, i, successful, failed,
                   sleeps, now, fetch_calls, uploads, bucket, call, exc>>

Next ==
    \/ LoadConfiguration
    \/ InitializeGcsClient
    \/ \E tl \in TickerLists(config) : Run(tl)
    \/ LoadAndProcessData
    \/ ValidateData
    \/ UploadToGcs
    \/ ProcessTickerExcept
    \/ RunAppend
    \/ RateLimit
    \/ RunSummary
    \/ MainExit

Spec == Init /\ [][Next]_vars

SpecPipeline == InitPipeline /\ [][Next]_vars

TypeOK ==
    /\ config \in Configs \cup PipelineConfigs
    /\ pc \in {"start", "config_loaded", "init_failed", "constructed",
               "loop", "retry", "validate", "upload", "except", "returned",
               "rate_limit", "done", "raised"}
    /\ exit_status \in {"none", "0", "1"}
    /\ i \in 1..(Len(tickers) + 1)
    /\ call.result \in {"none", "running", "True", "False", "raise"}

-----------------------------------------------------------------------------
\* Properties

RunCalled ==
    pc \notin {"start", "config_loaded", "init_failed", "constructed"}

RunEnded == pc \in {"done", "raised"}

CallEnded == call.result \in {"True", "False", "raise"}

EmptyFetch == call.resp.kind = "df" /\ call.resp.df.empty

\* the column names of the provider's answer, whatever the index shape
RespNames == {c[1] : c \in call.resp.df.columns}
RespNegative == {c[1] : c \in call.resp.df.negative}

WellFormedResp ==
    /\ call.resp.kind = "df"
    /\ ~call.resp.df.empty
    /\ ProviderColumns \subseteq RespNames

MissingColumn ==
    /\ call.resp.kind = "df"
    /\ ~call.resp.df.empty
    /\ "validate" \in ToSet(call.stages)
    /\ required_columns \ call.df.columns # {}

\* C1: whenever run has ended, the successful and failed lists have, as sets,
\* a union equal to the set of input tickers and an empty intersection,
\* whatever the per-ticker outcomes were.
C1_Partition ==
    RunEnded =>
        /\ ToSet(successful) \cup ToSet(failed) = ToSet(tickers)
        /\ ToSet(successful) \cap ToSet(failed) = {}

\* C2: a run over a non-empty ticker sequence that has completed has slept
\* for the rate limit exactly len(tickers) - 1 times.
C2_WaitCount ==
    (pc = "done" /\ Len(tickers) >= 1) => sleeps = Len(tickers) - 1

\* C3: process_ticker ends with a boolean result; no exception ever leaves
\* process_ticker.
C3_NoPropagation == CallEnded => call.result \in {"True", "False"}

\* C4: when the fetch returned an empty frame for X, process_ticker(X)
\* returns False without reaching the upload stage, and run lists X in failed
\* and goes on with the later tickers.
C4_EmptyFetchFails ==
    EmptyFetch =>
        /\ "upload" \notin ToSet(call.stages)
        /\ CallEnded => call.result = "False"
        /\ pc # "raised"
        /\ pc \in {"rate_limit", "loop", "done"}
              => call.ticker \in ToSet(failed)

\* C5: when validation finds a required column missing for X,
\* process_ticker(X) returns False and the upload stage is never reached, so
\* no object is written for that call.
C5_MissingColumnFails ==
    MissingColumn =>
        /\ "upload" \notin ToSet(call.stages)
        /\ call.path = <<>>
        /\ CallEnded => call.result = "False"

\* C6: for a non-empty frame with all required columns, negative prices
\* never change the result: process_ticker ends with True unless the upload
\* itself failed, and validation emits one warning per price column that
\* holds a negative value, in the order Open, High, Low, Close.
C6_NegativeOnlyWarns ==
    (WellFormedResp /\ CallEnded) =>
        /\ call.result = "True"
              \/ call.upload_outcome \in {"Forbidden", "TransportError"}
        /\ call.upload_outcome = "ok" => call.result = "True"
        /\ call.warnings =
              SelectSeq(price_columns, LAMBDA col : col[1] \in RespNegative)

C6_Witness ==
    /\ WellFormedResp
    /\ call.result = "True"
    /\ Len(call.warnings) = 2

SameSecond(a, b) == (a.at \div TicksPerSecond) = (b.at \div TicksPerSecond)

UploadPairs ==
    {p \in (1..Len(uploads)) \X (1..Len(uploads)) :
        p[1] < p[2] /\ uploads[p[1]].ticker = uploads[p[2]].ticker}

C8_RunNeverThrows == pc # "raised"

C10_FetchArguments ==
    \A k \in 1..Len(fetch_calls) :
        /\ fetch_calls[k].period = config.period
        /\ fetch_calls[k].interval = config.interval

C10_Witness ==
    /\ Len(fetch_calls) = 2
    /\ config.period = "1mo"
    /\ config.interval = "1h"

\* C11: the process ends with a non-zero status only after an initialization
\* failure, and then without any fetch; a failure of a ticker during run
\* never ends the process with a failure status, and a process that ends
\* after run has processed every ticker.
C11_OnlyInitFailureIsFatal ==
    /\ pc = "init_failed" =>
          /\ fetch_calls = <<>>
          /\ exit_status \in {"none", "1"}
    /\ pc # "init_failed" =>
          /\ exit_status # "1"
          /\ exit_status = "0" => Len(fetch_calls) = Len(tickers)

\* C12: for every retry_attempts, a process_ticker call that has ended made
\* exactly one attempt (one fetch, no retry sleep, no re-invocation with
\* retry + 1, so never more than retry_attempts attempts), and a call that
\* did not succeed returned False.
C12_SingleAttempt ==
    CallEnded =>
        /\ call.fetches = 1
        /\ call.retry_sleeps = 0
        /\ call.retry = 0
        /\ call.retry + 1 <= config.retry_attempts
        /\ call.result # "True" => call.result = "False"

StageOrder == <<"fetch", "validate", "upload">>

FetchOk == call.resp.kind = "df" /\ ~call.resp.df.empty

ValidationPassed == required_columns \subseteq call.df.columns

\* C13: within one process_ticker call the stages entered are a prefix of
\* fetch, validate, upload; validate is entered only after a non-empty fetch,
\* upload only after validation passed on the fetched table; a call that
\* ended without success ended at the stage that failed, with no later stage
\* entered; and a call succeeds only after the upload completed.
C13_StageOrder ==
    /\ call.stages = SubSeq(StageOrder, 1, Len(call.stages))
    /\ (pc = "validate" \/ Len(call.stages) >= 2) => FetchOk
    /\ (pc = "upload" \/ Len(call.stages) >= 3) =>
          /\ FetchOk
          /\ Len(call.stages) >= 2
          /\ ValidationPassed
    /\ call.result = "True" =>
          /\ call.stages = StageOrder
          /\ call.upload_outcome = "ok"
          /\ call.path # <<>>
    /\ (pc = "except" \/ (CallEnded /\ call.result # "True")) =>
          /\ call.stages # <<>>
          /\ CASE Len(call.stages) = 1 -> ~FetchOk
               [] Len(call.stages) = 2 -> ~ValidationPassed
               [] OTHER -> call.upload_outcome # "ok" /\ call.path = <<>>

C13_Witness ==
    /\ CallEnded
    /\ call.result # "True"
    /\ call.stages = <<"fetch", "validate">>

RECURSIVE IsSubseq(_, _)
IsSubseq(s, t) ==
    IF s = <<>> THEN TRUE
    ELSE IF t = <<>> THEN FALSE
    ELSE IF Head(s) = Head(t) THEN IsSubseq(Tail(s), Tail(t))
    ELSE IsSubseq(s, Tail(t))

\* C14: when run has ended, successful and failed are subsequences of the
\* input and together hold exactly one entry per input position.
C14_OneEntryPerPosition ==
    RunEnded =>
        /\ Len(successful) + Len(failed) = Len(tickers)
        /\ IsSubseq(successful, tickers)
        /\ IsSubseq(failed, tickers)

\* C15: whether run waits after a position depends on the ticker sequence
\* and the position only, never on the result of process_ticker there: at
\* every loop boundary and at the end of run, the waits made are those of
\* the positions processed so far.
C15_WaitIgnoresResult ==
    pc \in {"loop", "done", "raised"} =>
        sleeps = Cardinality({k \in 1..Len(fetch_calls) :
                                 wait_after(tickers, k)})

\* C16: a run without an explicit ticker sequence whose selected group is
\* empty fails at the selection; it never enters the loop nor completes as
\* an empty run.
C16_EmptyGroupFails ==
    (RunCalled /\ ~ticker_list.given /\ config.indian_stocks = <<>>) =>
        pc = "raised"

UploadedTickers == [k \in 1..Len(uploads) |-> uploads[k].ticker]

\* C17: the completed uploads are, in order, those of the entries of
\* successful (one more while a successful call waits to be recorded), so at
\* the end of a run there is one upload per entry of successful and none for
\* an entry of failed; and a call that ended returned True exactly when
\* fetch, validation and upload all succeeded.
C17_UploadsMatchSuccessful ==
    /\ RunCalled =>
          UploadedTickers =
              IF pc = "returned" /\ call.result = "True"
              THEN Append(successful, call.ticker) ELSE successful
    /\ \A k \in 1..Len(failed) :
          Cardinality({u \in 1..Len(uploads) : uploads[u].ticker = failed[k]})
              = Cardinality({u \in 1..Len(successful) :
                                successful[u] = failed[k]})
    /\ CallEnded =>
          (call.result = "True"
              <=> FetchOk /\ ValidationPassed /\ call.upload_outcome = "ok")

C17_Witness ==
    /\ RunEnded
    /\ Len(successful) = 1
    /\ Len(uploads) = 1
    /\ call.result = "raise"

====
